---- MODULE Spec2Model ----
(***************************************************************************)
(* Model of src/main.py: the books ETL pipeline (extract_book_data,        *)
(* transform_data, load_to_postgres) and the star-schema warehouse build   *)
(* (build_data_warehouse), run in sequence by main().                      *)
(*                                                                         *)
(* Conventions.                                                            *)
(*  - A value that may be missing (Python None / pandas NaN / SQL NULL) is *)
(*    a sequence of length at most one: None is <<>>, Some(x) is <<x>>.    *)
(*  - Money is an integer number of model units; Milli units make 0.001    *)
(*    and Cent units make 0.01.  Milli is chosen so that every mean over   *)
(*    the rows of a data frame and every multiplication by 0.75 is exact:  *)
(*    the model computes in exact decimal arithmetic where the program     *)
(*    computes in binary floating point.                                   *)
(*  - A price text is [pre |-> the characters before the number,           *)
(*    amt |-> the number in thousandths].                                  *)
(***************************************************************************)
EXTENDS Integers, Sequences, FiniteSets, TLC

VARIABLES pc, feed, fetched, runs, books, df, li, log, db, tx, serial

vars == <<pc, feed, fetched, runs, books, df, li, log, db, tx, serial>>

(***************************************************************************)
(* Bounds of the model.                                                    *)
(***************************************************************************)
\* Number of records the feed serves, over all runs, in the runs against one
\* database (Spec).
MaxBooks == 2
\* Number of records the feed serves to the single run (SpecT).
MaxRecords == 3
\* Number of times main() is run against the same database.
MaxRuns == 2

(***************************************************************************)
(* Missing values.                                                         *)
(***************************************************************************)
None == <<>>

Some(x) == <<x>>

isna(x) == x = None

Val(x) == x[1]

(***************************************************************************)
(* Money.                                                                  *)
(***************************************************************************)
RECURSIVE Gcd(_, _)
Gcd(a, b) == IF b = 0 THEN a ELSE Gcd(b, a % b)

RECURSIVE LcmUpTo(_)
LcmUpTo(n) == IF n <= 1 THEN 1 ELSE LET l == LcmUpTo(n - 1) IN (l * n) \div Gcd(l, n)

\* Model units in 0.001: a multiple of 4 and of every number of records a
\* data frame can hold.
Milli == 4 * LcmUpTo(MaxBooks) * LcmUpTo(MaxRecords)

Cent == 10 * Milli

Abs(x) == IF x < 0 THEN 0 - x ELSE x

\* Nearest multiple of q, ties away from zero (PostgreSQL numeric rounding).
RoundHalfAway(x, q) ==
    LET m == ((2 * Abs(x) + q) \div (2 * q)) * q
    IN  IF x < 0 THEN 0 - m ELSE m

\* Nearest multiple of q, ties to even (Python round()).
RoundHalfEven(x, q) ==
    LET f == Abs(x) \div q
        r == Abs(x) % q
        n == IF 2 * r < q THEN f
             ELSE IF 2 * r > q THEN f + 1
             ELSE IF f % 2 = 0 THEN f ELSE f + 1
    IN  IF x < 0 THEN 0 - (n * q) ELSE n * q

(***************************************************************************)
(* Sequences.                                                              *)
(***************************************************************************)
\* <<1, ..., n>>
Indices(n) == [i \in 1..n |-> i]

Range(s) == {s[i] : i \in 1..Len(s)}

\* The orders in which the elements of the finite set S can be listed.
Orders(S) ==
    {s \in [1..Cardinality(S) -> S] : \A i, j \in 1..Cardinality(S) : i # j => s[i] # s[j]}

RECURSIVE Concat(_)
Concat(ss) == IF ss = <<>> THEN <<>> ELSE Head(ss) \o Concat(Tail(ss))

(***************************************************************************)
(* transform_data.  A data frame is [index |-> the pandas index labels,    *)
(* rows |-> the records], two sequences of the same length.                *)
(***************************************************************************)
price_fields == <<"price", "price_excl_tax", "price_incl_tax", "tax">>

\* tolerance = 0.01
tolerance == Cent

\* conversion_rate = 0.75, as the fraction 3/4
conversion_rate_num == 3

conversion_rate_den == 4

rating_map == [l \in {"One", "Two", "Three", "Four", "Five"} |->
                 CASE l = "One" -> 1 [] l = "Two" -> 2 [] l = "Three" -> 3
                   [] l = "Four" -> 4 [] l = "Five" -> 5]

DataFrame(bs) == [index |-> [i \in 1..Len(bs) |-> i], rows |-> bs]

\* The rows of d at the positions pos, with their index labels.
Take(d, pos) ==
    [index |-> [k \in 1..Len(pos) |-> d.index[pos[k]]],
     rows  |-> [k \in 1..Len(pos) |-> d.rows[pos[k]]]]

\* df.drop_duplicates(): a row equal in every column to an earlier row goes.
drop_duplicates(d) ==
    Take(d, SelectSeq(Indices(Len(d.rows)),
                      LAMBDA k : \A j \in 1..(k - 1) : d.rows[j] # d.rows[k]))

\* price_str.replace(c, "")
Without(pre, c) == SelectSeq(pre, LAMBDA x : x # c)

convert_to_pounds(price_str) ==
    IF isna(price_str) THEN None
    ELSE LET amt == Val(price_str).amt * Milli
             pre == Without(Val(price_str).pre, "Â")
         IN  IF pre # <<>> /\ Head(pre) = "£"
             THEN \* float() raises on anything left beside the number
                  IF Without(pre, "£") = <<>> THEN Some(amt) ELSE None
             ELSE IF pre # <<>> /\ Head(pre) = "$"
             THEN IF Without(pre, "$") = <<>>
                  THEN Some(RoundHalfEven((amt * conversion_rate_num) \div conversion_rate_den, Cent))
                  ELSE None
             ELSE None

ConvertRow(r) ==
    [r EXCEPT !.price          = convert_to_pounds(r.price),
              !.price_excl_tax = convert_to_pounds(r.price_excl_tax),
              !.price_incl_tax = convert_to_pounds(r.price_incl_tax),
              !.tax            = convert_to_pounds(r.tax)]

ConvertPrices(d) ==
    [d EXCEPT !.rows = [k \in 1..Len(d.rows) |-> ConvertRow(d.rows[k])]]

\* dropna_title dropping nothing.
dropna_nothing(d) == d

\* df.dropna(subset=["title"])
dropna_title(d) ==
    Take(d, SelectSeq(Indices(Len(d.rows)), LAMBDA k : ~isna(d.rows[k].title)))

RECURSIVE SumAt(_, _, _)
SumAt(rows, field, pos) ==
    IF pos = <<>> THEN 0
    ELSE Val(rows[Head(pos)][field]) + SumAt(rows, field, Tail(pos))

\* x.fillna(x.mean()) within the group of row k; groupby('category') leaves
\* the rows whose category is missing out of every group, and transform
\* gives those rows a missing value.
FillGroupMean(rows, field, k) ==
    LET grp == SelectSeq(Indices(Len(rows)),
                         LAMBDA j : rows[j].category = rows[k].category
                                    /\ ~isna(rows[j][field]))
    IN  IF isna(rows[k].category) THEN None
        ELSE IF ~isna(rows[k][field]) THEN rows[k][field]
        ELSE IF grp = <<>> THEN None
        ELSE Some(SumAt(rows, field, grp) \div Len(grp))

ImputeByCategory(d) ==
    [d EXCEPT !.rows = [k \in 1..Len(d.rows) |->
        [d.rows[k] EXCEPT
            !.price          = FillGroupMean(d.rows, "price", k),
            !.price_excl_tax = FillGroupMean(d.rows, "price_excl_tax", k),
            !.price_incl_tax = FillGroupMean(d.rows, "price_incl_tax", k),
            !.tax            = FillGroupMean(d.rows, "tax", k)]]]

\* df['rating'].map(rating_map).fillna(0).astype(int)
MapRating(x) ==
    IF ~isna(x) /\ Val(x) \in DOMAIN rating_map THEN rating_map[Val(x)] ELSE 0

\* True if x and "In stock" in x else False; a text is its sequence of phrases
InStock(x) == ~isna(x) /\ "In stock" \in Range(Val(x))

fillna(x, v) == IF isna(x) THEN Some(v) ELSE x

\* pd.to_numeric(..., errors='coerce').fillna(0).astype(int)
ToQuantity(x) == IF isna(x) THEN 0 ELSE Val(x)

DefaultsRow(r) ==
    [r EXCEPT !.rating             = MapRating(r.rating),
              !.availability       = InStock(r.availability),
              !.category           = fillna(r.category, "Others"),
              !.product_type       = fillna(r.product_type, "Books"),
              !.available_quantity = ToQuantity(r.available_quantity)]

ApplyDefaults(d) ==
    [d EXCEPT !.rows = [k \in 1..Len(d.rows) |-> DefaultsRow(d.rows[k])]]

\* abs(price_incl_tax - tax - price_excl_tax) > tolerance; a comparison with
\* a missing operand is False
TaxInconsistent(r) ==
    /\ ~isna(r.price_incl_tax) /\ ~isna(r.tax) /\ ~isna(r.price_excl_tax)
    /\ Abs(Val(r.price_incl_tax) - Val(r.tax) - Val(r.price_excl_tax)) > tolerance

\* price_incl_tax - tax
InclMinusTax(r) ==
    IF isna(r.price_incl_tax) \/ isna(r.tax) THEN None
    ELSE Some(Val(r.price_incl_tax) - Val(r.tax))

\* TaxRepairRow overwriting price_incl_tax (as price_excl_tax + tax) instead.
TaxRepairRowIncl(r) ==
    IF TaxInconsistent(r)
    THEN [r EXCEPT !.price_incl_tax = Some(Val(r.price_excl_tax) + Val(r.tax))]
    ELSE r

TaxRepairRow(r) ==
    IF TaxInconsistent(r) THEN [r EXCEPT !.price_excl_tax = InclMinusTax(r)] ELSE r

TaxRepair(d) ==
    [d EXCEPT !.rows = [k \in 1..Len(d.rows) |-> TaxRepairRow(d.rows[k])]]

\* abs(price - price_incl_tax) > tolerance
PriceMismatch(r) ==
    /\ ~isna(r.price) /\ ~isna(r.price_incl_tax)
    /\ Abs(Val(r.price) - Val(r.price_incl_tax)) > tolerance

PriceRepairRow(r) ==
    IF PriceMismatch(r) THEN [r EXCEPT !.price = r.price_incl_tax] ELSE r

PriceRepair(d) ==
    [d EXCEPT !.rows = [k \in 1..Len(d.rows) |-> PriceRepairRow(d.rows[k])]]

\* len(inconsistent_rows)
CountInconsistent(d) == Len(SelectSeq(d.rows, TaxInconsistent))

\* len(inconsistent_price)
CountMismatch(d) == Len(SelectSeq(d.rows, PriceMismatch))

(***************************************************************************)
(* The relational store.  A table is the sequence of its rows in insertion *)
(* order; db is the committed state, tx the state the open connection      *)
(* sees; serial holds the SERIAL sequences, which no rollback winds back.  *)
(* The created_at columns are left out.                                    *)
(***************************************************************************)
TableNames == {"raw_books", "product_type", "books_details", "category_info",
               "rating_info", "availability_info", "books_fact"}

WarehouseTables == TableNames \ {"raw_books"}

EmptyStore == [tables |-> {}, raw_books |-> <<>>, product_type |-> <<>>,
               books_details |-> <<>>, category_info |-> <<>>,
               rating_info |-> <<>>, availability_info |-> <<>>,
               books_fact |-> <<>>]

\* SQL a = b: not true when either side is NULL
SqlEq(a, b) == ~isna(a) /\ ~isna(b) /\ a = b

\* NUMERIC(10, 2): the value rounded to two fractional digits
Numeric2(x) == IF isna(x) THEN None ELSE Some(RoundHalfAway(Val(x), Cent))

\* The parameters of insert_query for one data frame row, as stored.
StagingRow(r, id) ==
    [id                  |-> id,
     title               |-> r.title,
     price               |-> Numeric2(r.price),
     rating              |-> Some(r.rating),
     availability        |-> Some(r.availability),
     category            |-> r.category,
     book_url            |-> r.book_url,
     book_thumbnail_url  |-> r.book_thumbnail_url,
     product_description |-> r.product_description,
     upc                 |-> r.upc,
     product_type        |-> r.product_type,
     price_excl_tax      |-> Numeric2(r.price_excl_tax),
     price_incl_tax      |-> Numeric2(r.price_incl_tax),
     tax                 |-> Numeric2(r.tax),
     available_quantity  |-> Some(r.available_quantity),
     no_of_reviews       |-> Some(r.no_of_reviews)]

\* CASE WHEN availability THEN 'In Stock' ELSE 'Out of Stock' END
AvailabilityLabel(a) ==
    IF ~isna(a) /\ Val(a) THEN Some("In Stock") ELSE Some("Out of Stock")

\* SELECT DISTINCT <column> FROM raw_books
DistinctOf(rows, Col(_)) == {Col(rows[i]) : i \in 1..Len(rows)}

\* InsertIgnore without the ON CONFLICT clause taking effect.
InsertBlind(rows, key, vals, last) ==
    [rows |-> rows \o [k \in 1..Len(vals) |-> [id |-> last + k] @@ (key :> vals[k])],
     last |-> last + Len(vals)]

\* INSERT ... ON CONFLICT (<key>) DO NOTHING of the values vals, in order:
\* every candidate row draws a value of the sequence, a row whose key is
\* already in the table is skipped.  Gives [rows, last].
RECURSIVE InsertIgnore(_, _, _, _)
InsertIgnore(rows, key, vals, last) ==
    IF vals = <<>> THEN [rows |-> rows, last |-> last]
    ELSE IF \E i \in 1..Len(rows) : rows[i][key] = Head(vals)
         THEN InsertIgnore(rows, key, Tail(vals), last + 1)
         ELSE InsertIgnore(Append(rows, [id |-> last + 1] @@ (key :> Head(vals))),
                           key, Tail(vals), last + 1)

\* The elements of a finite set of integers in ascending order.
RECURSIVE SortAsc(_)
SortAsc(S) ==
    IF S = {} THEN <<>>
    ELSE LET m == CHOOSE x \in S : \A y \in S : x <= y
         IN  <<m>> \o SortAsc(S \ {m})

BooksDetailsRow(rb, id) ==
    [id                  |-> id,
     title               |-> rb.title,
     upc                 |-> rb.upc,
     product_description |-> rb.product_description,
     book_url            |-> rb.book_url,
     book_thumbnail_url  |-> rb.book_thumbnail_url,
     no_of_reviews       |-> rb.no_of_reviews]

\* The ids of the rows of the table whose columns cols equal the values
\* vals under SQL's =, in the order of the table.
MatchIds(rows, cols, vals) ==
    LET m == SelectSeq(rows, LAMBDA d : \A c \in 1..Len(cols) : SqlEq(vals[c], d[cols[c]]))
    IN  [k \in 1..Len(m) |-> m[k].id]

\* LeftJoin as an inner join: no partner, no row.
InnerJoin(ids) == [k \in 1..Len(ids) |-> Some(ids[k])]

\* LEFT JOIN: the ids of the partners of a row, or one NULL when it has none.
LeftJoin(ids) ==
    IF ids = <<>> THEN <<None>> ELSE [k \in 1..Len(ids) |-> Some(ids[k])]

\* Every tuple of ts extended by every id of ms.
Cross(ts, ms) ==
    Concat([i \in 1..Len(ts) |-> [j \in 1..Len(ms) |-> Append(ts[i], ms[j])]])

\* The rows the SELECT of insert_fact_query yields for the staging row rb:
\* tuples <<bd.id, ci.id, ri.id, ai.id, pt.id>>.
FactJoin(s, rb) ==
    LET bd == LeftJoin(MatchIds(s.books_details, <<"title", "upc">>,
                                <<rb.title, rb.upc>>))
        ci == LeftJoin(MatchIds(s.category_info, <<"category_name">>, <<rb.category>>))
        ri == LeftJoin(MatchIds(s.rating_info, <<"rating_value">>, <<rb.rating>>))
        ai == LeftJoin(MatchIds(s.availability_info, <<"availability_status">>,
                                <<AvailabilityLabel(rb.availability)>>))
        pt == LeftJoin(MatchIds(s.product_type, <<"product_type_name">>,
                                <<rb.product_type>>))
    IN  Cross(Cross(Cross(Cross(Cross(<<<<>>>>, bd), ci), ri), ai), pt)

\* FactRow with ci.id and ri.id in each other's place in the select list.
FactRowSwapped(rb, t) ==
    [books_details_id   |-> t[1],
     price              |-> rb.price,
     price_excl_tax     |-> rb.price_excl_tax,
     price_incl_tax     |-> rb.price_incl_tax,
     tax                |-> rb.tax,
     available_quantity |-> rb.available_quantity,
     category_id        |-> t[3],
     rating_id          |-> t[2],
     availability_id    |-> t[4],
     product_type_id    |-> t[5],
     raw_books_id       |-> rb.id]

\* One books_fact row without its id.  raw_books_id is not a column of
\* books_fact: it records the staging row the SELECT built the row from.
FactRow(rb, t) ==
    [books_details_id   |-> t[1],
     price              |-> rb.price,
     price_excl_tax     |-> rb.price_excl_tax,
     price_incl_tax     |-> rb.price_incl_tax,
     tax                |-> rb.tax,
     available_quantity |-> rb.available_quantity,
     category_id        |-> t[2],
     rating_id          |-> t[3],
     availability_id    |-> t[4],
     product_type_id    |-> t[5],
     raw_books_id       |-> rb.id]

FactSelect(s) ==
    Concat([i \in 1..Len(s.raw_books) |->
              LET ts == FactJoin(s, s.raw_books[i])
              IN  [k \in 1..Len(ts) |-> FactRow(s.raw_books[i], ts[k])]])

\* The rows with ids last+1, last+2, ... given to them
WithIds(rows, last) == [k \in 1..Len(rows) |-> [id |-> last + k] @@ rows[k]]

(***************************************************************************)
(* The source feed: [records |-> the records its pages can hold,           *)
(* limit |-> the number of records it serves].                             *)
(***************************************************************************)
Text(pre, amt) == Some([pre |-> pre, amt |-> amt])

\* A record as extract_book_data builds it (book_info).
BookInfo(title, upc, category, rating, availability, product_type, prices) ==
    [title               |-> title,
     price               |-> prices[1],
     rating              |-> rating,
     availability        |-> availability,
     category            |-> category,
     book_url            |-> "catalogue/book/index.html",
     book_thumbnail_url  |-> "media/cache/book.jpg",
     product_description |-> None,
     upc                 |-> upc,
     product_type        |-> product_type,
     price_excl_tax      |-> prices[2],
     price_incl_tax      |-> prices[3],
     tax                 |-> prices[4],
     available_quantity  |-> Some(22),
     no_of_reviews       |-> 0]

\* <<price, price_excl_tax, price_incl_tax, tax>>
PlainPrices == <<Text(<<"£">>, 10000), Text(<<"£">>, 10000),
                 Text(<<"£">>, 10000), Text(<<"£">>, 0)>>

\* <<category, rating, availability, product_type, prices>>
KeyVariants ==
    {<<Some("Poetry"), Some("Three"), Some(<<"In stock">>), Some("Books"), PlainPrices>>,
     <<None, None, None, Some("eBook"),
       [PlainPrices EXCEPT ![1] = Text(<<"£">>, 20000), ![3] = Text(<<"£">>, 20000)]>>}

\* Books that differ in the keys the warehouse is built from: two with the
\* same title and upc, one without upc, one without title.
FeedKeys ==
    {BookInfo(Some("A"), Some("U1"), v[1], v[2], v[3], v[4], v[5]) : v \in KeyVariants}
    \cup {BookInfo(t, None, Some("Poetry"), Some("Three"), Some(<<"In stock">>),
                   None, PlainPrices) : t \in {None, Some("B")}}

\* Books that differ in category and in the four prices.
FeedPrices ==
    {BookInfo(Some("A"), Some("U1"), c, Some("One"), Some(<<"In stock">>), Some("Books"), p) :
        c \in {None, Some("Poetry")},
        p \in {<<None, Text(<<"£">>, 8000), Text(<<"£">>, 10000), Text(<<"£">>, 1000)>>,
               <<Text(<<"£">>, 10000), Text(<<"£">>, 9994), Text(<<"£">>, 10005),
                 Text(<<"£">>, 4)>>,
               <<Text(<<"$">>, 20010), None, None, None>>,
               <<Text(<<"£">>, 20000), Text(<<"£">>, 20000), Text(<<"£">>, 20000),
                 Text(<<"£">>, 0)>>}}

\* Books that differ in title and in the spelling of equal values.
FeedText ==
    {BookInfo(t, Some("U1"), Some("Poetry"), r, Some(<<"In stock">>), Some("Books"),
              [PlainPrices EXCEPT ![1] = Text(pre, 10000)]) :
        t \in {None, Some(""), Some("A")},
        r \in {Some("Five")},
        pre \in {<<"£">>, <<"Â", "£">>, <<"€">>}}

(***************************************************************************)
(* main(): extract_book_data, transform_data, load_to_postgres,            *)
(* build_data_warehouse; pc is the statement the run is at.                *)
(***************************************************************************)
NoLog == [inconsistent |-> 0, mismatch |-> 0]

NoSerial == [t \in TableNames |-> 0]

\* The variables of main() and of the functions it calls, before the first
\* statement and after the process has ended.
NoLocals ==
    /\ books = <<>>
    /\ df = DataFrame(<<>>)
    /\ li = 0
    /\ log = NoLog

StartOfRun == pc = "extract" /\ NoLocals

\* The process ends: its variables are gone.
DropLocals ==
    /\ books' = <<>>
    /\ df' = DataFrame(<<>>)
    /\ li' = 0
    /\ log' = NoLog

Init ==
    /\ StartOfRun
    /\ feed = [records |-> FeedKeys, limit |-> MaxBooks]
    /\ fetched = 0
    /\ runs = 1
    /\ db = EmptyStore
    /\ tx = EmptyStore
    /\ serial = NoSerial

InitT ==
    /\ StartOfRun
    /\ feed \in {[records |-> FeedPrices, limit |-> MaxRecords],
                 [records |-> FeedText, limit |-> MaxRecords]}
    /\ fetched = 0
    /\ runs = 1
    /\ db = EmptyStore
    /\ tx = EmptyStore
    /\ serial = NoSerial

\* One pass of the loop over the articles: books.append(book_info)
ExtractBook ==
    /\ pc = "extract"
    /\ fetched < feed.limit
    /\ \E b \in feed.records : books' = Append(books, b)
    /\ fetched' = fetched + 1
    /\ UNCHANGED <<pc, feed, runs, df, li, log, db, tx, serial>>

\* return books; main() calls transform_data(books)
ExtractReturn ==
    /\ pc = "extract"
    /\ pc' = "t_dedup"
    /\ UNCHANGED <<feed, fetched, runs, books, df, li, log, db, tx, serial>>

TransformDedup ==
    /\ pc = "t_dedup"
    /\ df' = drop_duplicates(DataFrame(books))
    /\ pc' = "t_convert"
    /\ UNCHANGED <<feed, fetched, runs, books, li, log, db, tx, serial>>

\* A frame built from no record has no column: df[field] raises KeyError.
TransformKeyError ==
    /\ pc = "t_convert"
    /\ books = <<>>
    /\ pc' = "failed"
    /\ DropLocals
    /\ UNCHANGED <<feed, fetched, runs, db, tx, serial>>

TransformConvert ==
    /\ pc = "t_convert"
    /\ books # <<>>
    /\ df' = ConvertPrices(df)
    /\ pc' = "t_dropna"
    /\ UNCHANGED <<feed, fetched, runs, books, li, log, db, tx, serial>>

TransformDropna ==
    /\ pc = "t_dropna"
    /\ df' = dropna_title(df)
    /\ pc' = "t_impute"
    /\ UNCHANGED <<feed, fetched, runs, books, li, log, db, tx, serial>>

TransformImpute ==
    /\ pc = "t_impute"
    /\ df' = ImputeByCategory(df)
    /\ pc' = "t_defaults"
    /\ UNCHANGED <<feed, fetched, runs, books, li, log, db, tx, serial>>

TransformDefaults ==
    /\ pc = "t_defaults"
    /\ df' = ApplyDefaults(df)
    /\ pc' = "t_tax"
    /\ UNCHANGED <<feed, fetched, runs, books, li, log, db, tx, serial>>

TransformTaxRepair ==
    /\ pc = "t_tax"
    /\ df' = TaxRepair(df)
    /\ log' = [log EXCEPT !.inconsistent = CountInconsistent(df)]
    /\ pc' = "t_price"
    /\ UNCHANGED <<feed, fetched, runs, books, li, db, tx, serial>>

\* ... return df; main() calls load_to_postgres(df)
TransformPriceRepair ==
    /\ pc = "t_price"
    /\ df' = PriceRepair(df)
    /\ log' = [log EXCEPT !.mismatch = CountMismatch(df)]
    /\ pc' = "l_create"
    /\ UNCHANGED <<feed, fetched, runs, books, li, db, tx, serial>>

\* CREATE TABLE IF NOT EXISTS raw_books; conn.commit()
LoadCreate ==
    /\ pc = "l_create"
    /\ tx' = [tx EXCEPT !.tables = @ \cup {"raw_books"}]
    /\ db' = tx'
    /\ li' = 1
    /\ pc' = "l_insert"
    /\ UNCHANGED <<feed, fetched, runs, books, df, log, serial>>

\* One pass of the loop over df.iterrows(); title is NOT NULL
LoadInsert ==
    /\ pc = "l_insert"
    /\ li <= Len(df.rows)
    /\ ~isna(df.rows[li].title)
    /\ tx' = [tx EXCEPT !.raw_books =
                Append(@, StagingRow(df.rows[li], serial["raw_books"] + 1))]
    /\ serial' = [serial EXCEPT !["raw_books"] = @ + 1]
    /\ li' = li + 1
    /\ UNCHANGED <<pc, feed, fetched, runs, books, df, log, db>>

\* LoadCommit without the commit.
LoadNoCommit ==
    /\ pc = "l_insert"
    /\ li > Len(df.rows)
    /\ pc' = "b_create"
    /\ UNCHANGED <<feed, fetched, runs, books, df, li, log, db, tx, serial>>

\* conn.commit(); conn.close(); main() calls build_data_warehouse()
LoadCommit ==
    /\ pc = "l_insert"
    /\ li > Len(df.rows)
    /\ db' = tx
    /\ pc' = "b_create"
    /\ UNCHANGED <<feed, fetched, runs, books, df, li, log, tx, serial>>

\* The six CREATE TABLE IF NOT EXISTS; conn.commit()
BuildCreate ==
    /\ pc = "b_create"
    /\ tx' = [tx EXCEPT !.tables = @ \cup WarehouseTables]
    /\ db' = tx'
    /\ pc' = "b_product_type"
    /\ UNCHANGED <<feed, fetched, runs, books, df, li, log, serial>>

\* INSERT INTO <table> (<key>) SELECT DISTINCT ... ON CONFLICT DO NOTHING of
\* the values vals, which the SELECT yields in the order ord; key is NOT NULL
InsertDimension(table, key, ord, next) ==
    /\ None \notin Range(ord)
    /\ LET r == InsertIgnore(tx[table], key, ord, serial[table])
       IN  /\ tx' = [tx EXCEPT ![table] = r.rows]
           /\ serial' = [serial EXCEPT ![table] = r.last]
    /\ pc' = next
    /\ UNCHANGED <<feed, fetched, runs, books, df, li, log, db>>

InsertProductType ==
    /\ pc = "b_product_type"
    /\ \E ord \in Orders(DistinctOf(tx.raw_books, LAMBDA rb : rb.product_type)) :
          InsertDimension("product_type", "product_type_name", ord, "b_books_details")

\* INSERT INTO books_details SELECT ... FROM raw_books rb; title is NOT NULL
InsertBooksDetails ==
    /\ pc = "b_books_details"
    /\ \A i \in 1..Len(tx.raw_books) : ~isna(tx.raw_books[i].title)
    /\ tx' = [tx EXCEPT !.books_details =
                @ \o [i \in 1..Len(tx.raw_books) |->
                        BooksDetailsRow(tx.raw_books[i], serial["books_details"] + i)]]
    /\ serial' = [serial EXCEPT !["books_details"] = @ + Len(tx.raw_books)]
    /\ pc' = "b_category_info"
    /\ UNCHANGED <<feed, fetched, runs, books, df, li, log, db>>

InsertCategoryInfo ==
    /\ pc = "b_category_info"
    /\ \E ord \in Orders(DistinctOf(tx.raw_books, LAMBDA rb : rb.category)) :
          InsertDimension("category_info", "category_name", ord, "b_rating_info")

\* SELECT DISTINCT rating FROM raw_books ORDER BY rating ASC (NULLs last)
InsertRatingInfo ==
    /\ pc = "b_rating_info"
    /\ LET vals == DistinctOf(tx.raw_books, LAMBDA rb : rb.rating)
           asc  == SortAsc({Val(v) : v \in vals \ {None}})
           ord  == [k \in 1..Len(asc) |-> Some(asc[k])]
                   \o (IF None \in vals THEN <<None>> ELSE <<>>)
       IN  InsertDimension("rating_info", "rating_value", ord, "b_availability_info")

InsertAvailabilityInfo ==
    /\ pc = "b_availability_info"
    /\ \E ord \in Orders(DistinctOf(tx.raw_books,
                                    LAMBDA rb : AvailabilityLabel(rb.availability))) :
          InsertDimension("availability_info", "availability_status", ord, "b_commit")

\* conn.commit() after the five dimension inserts
BuildCommitDimensions ==
    /\ pc = "b_commit"
    /\ db' = tx
    /\ pc' = "b_fact"
    /\ UNCHANGED <<feed, fetched, runs, books, df, li, log, tx, serial>>

\* cur.execute(insert_fact_query)
InsertFact ==
    /\ pc = "b_fact"
    /\ LET new == FactSelect(tx)
       IN  /\ tx' = [tx EXCEPT !.books_fact = @ \o WithIds(new, serial["books_fact"])]
           /\ serial' = [serial EXCEPT !["books_fact"] = @ + Len(new)]
    /\ pc' = "b_fact_commit"
    /\ UNCHANGED <<feed, fetched, runs, books, df, li, log, db>>

\* conn.commit(); conn.close(); main() returns
BuildCommitFact ==
    /\ pc = "b_fact_commit"
    /\ db' = tx
    /\ pc' = "done"
    /\ DropLocals
    /\ UNCHANGED <<feed, fetched, runs, tx, serial>>

StorePcs == {"l_create", "l_insert", "b_create", "b_product_type", "b_books_details",
             "b_category_info", "b_rating_info", "b_availability_info", "b_commit",
             "b_fact", "b_fact_commit"}

\* A store operation raises: nothing catches it, the process ends and the
\* store rolls back what the connection had not committed.
StoreError ==
    /\ pc \in StorePcs
    /\ pc' = "failed"
    /\ tx' = db
    /\ DropLocals
    /\ UNCHANGED <<feed, fetched, runs, db, serial>>

\* main() is started again, against the same database.
RunAgain ==
    /\ pc \in {"done", "failed"}
    /\ runs < MaxRuns
    /\ runs' = runs + 1
    /\ pc' = "extract"
    /\ tx' = db
    /\ UNCHANGED <<feed, fetched, books, df, li, log, db, serial>>

Transform ==
    \/ TransformDedup
    \/ TransformKeyError
    \/ TransformConvert
    \/ TransformDropna
    \/ TransformImpute
    \/ TransformDefaults
    \/ TransformTaxRepair
    \/ TransformPriceRepair

Load == LoadCreate \/ LoadInsert \/ LoadCommit

Build ==
    \/ BuildCreate
    \/ InsertProductType
    \/ InsertBooksDetails
    \/ InsertCategoryInfo
    \/ InsertRatingInfo
    \/ InsertAvailabilityInfo
    \/ BuildCommitDimensions
    \/ InsertFact
    \/ BuildCommitFact

OneRun == ExtractBook \/ ExtractReturn \/ Transform \/ Load \/ Build \/ StoreError

Next == OneRun \/ RunAgain

\* Runs of main() against one database, on the catalogue FeedKeys.
Spec == Init /\ [][Next]_vars

\* One run of main() on an empty database, on FeedPrices or FeedText.
SpecT == InitT /\ [][OneRun]_vars

(***************************************************************************)
(* Properties of the warehouse build, checked under Spec.                  *)
(***************************************************************************)
TransformPcs == {"t_dedup", "t_convert", "t_dropna", "t_impute", "t_defaults",
                 "t_tax", "t_price"}

LoadPcs == {"l_create", "l_insert"}

BuildPcs == {"b_create", "b_product_type", "b_books_details", "b_category_info",
             "b_rating_info", "b_availability_info", "b_commit", "b_fact",
             "b_fact_commit"}

DimensionPcs == {"b_product_type", "b_category_info", "b_rating_info",
                 "b_availability_info"}

Rows(t) == {t[i] : i \in 1..Len(t)}

\* No two rows of the table hold the same value in the column.
UniqueColumn(t, col) ==
    \A i, j \in 1..Len(t) : t[i][col] = t[j][col] => i = j

DimensionsUnique(s) ==
    /\ UniqueColumn(s.product_type, "product_type_name")
    /\ UniqueColumn(s.category_info, "category_name")
    /\ UniqueColumn(s.rating_info, "rating_value")
    /\ UniqueColumn(s.availability_info, "availability_status")

\* Every natural key of every staging row is in its dimension already.
StagingCovered(s) ==
    \A rb \in Rows(s.raw_books) :
        /\ \E d \in Rows(s.product_type) : d.product_type_name = rb.product_type
        /\ \E d \in Rows(s.category_info) : d.category_name = rb.category
        /\ \E d \in Rows(s.rating_info) : d.rating_value = rb.rating
        /\ \E d \in Rows(s.availability_info) :
              d.availability_status = AvailabilityLabel(rb.availability)

FourDimensions(s) ==
    <<s.product_type, s.category_info, s.rating_info, s.availability_info>>

\* C1: after every step of every run, each of product_type.product_type_name,
\* category_info.category_name, rating_info.rating_value and
\* availability_info.availability_status holds every value at most once, in
\* the committed tables and in the ones the open connection sees; and a
\* dimension insert of a build whose staging keys are all in the dimensions
\* already (a second build against the same staging content) adds no row.
C1_DimensionKeysUnique ==
    [][/\ DimensionsUnique(tx')
       /\ DimensionsUnique(db')
       /\ (pc \in DimensionPcs /\ pc' # "failed" /\ StagingCovered(tx)
             => FourDimensions(tx') = FourDimensions(tx))]_vars

\* C1 witness: the second run loaded nothing, so its build works on the
\* staging content of the first, completed build; its dimension inserts
\* are done and the dimensions hold several rows.
C1_Witness ==
    /\ pc = "b_commit"
    /\ runs = 2
    /\ Len(df.rows) = 0
    /\ db.books_fact # <<>>
    /\ tx.category_info # <<>>
    /\ FourDimensions(tx) = FourDimensions(db)

\* The fact rows the running build has inserted and not yet committed.
NewFacts == SubSeq(tx.books_fact, Len(db.books_fact) + 1, Len(tx.books_fact))

\* C2: when a build has executed its fact insert, it has added exactly one
\* books_fact row per raw_books row, and each added row that was built from
\* a staging row with a upc references exactly one books_details row (a
\* staging row without upc is the case of C3 and is left out here).
C2_OneFactPerStagingRow ==
    pc = "b_fact_commit" =>
        /\ Len(NewFacts) = Len(tx.raw_books)
        /\ \A f \in Rows(NewFacts) :
              (\E rb \in Rows(tx.raw_books) : rb.id = f.raw_books_id /\ ~isna(rb.upc))
                 => /\ ~isna(f.books_details_id)
                    /\ Cardinality({d \in Rows(tx.books_details) :
                                       d.id = Val(f.books_details_id)}) = 1

\* No row of the table has the non-NULL value v in the column.
NoPartner(t, col, v) == ~\E d \in Rows(t) : ~isna(v) /\ d[col] = v

\* No row of books_details has the title and the upc of rb, both non-NULL.
NoBooksDetails(s, rb) ==
    ~\E d \in Rows(s.books_details) :
        /\ ~isna(rb.title) /\ ~isna(rb.upc)
        /\ d.title = rb.title /\ d.upc = rb.upc

\* C3: when a build has executed its fact insert, every raw_books row has at
\* least one of the added fact rows, and a row whose natural key matches no
\* row of a dimension has NULL as that dimension's foreign key in all of them.
C3_NoStagingRowDropped ==
    pc = "b_fact_commit" =>
        \A rb \in Rows(tx.raw_books) :
            LET mine == {f \in Rows(NewFacts) : f.raw_books_id = rb.id}
            IN  /\ mine # {}
                /\ NoBooksDetails(tx, rb)
                     => \A f \in mine : isna(f.books_details_id)
                /\ NoPartner(tx.category_info, "category_name", rb.category)
                     => \A f \in mine : isna(f.category_id)
                /\ NoPartner(tx.rating_info, "rating_value", rb.rating)
                     => \A f \in mine : isna(f.rating_id)
                /\ NoPartner(tx.availability_info, "availability_status",
                             IF rb.availability = Some(TRUE) THEN Some("In Stock")
                             ELSE Some("Out of Stock"))
                     => \A f \in mine : isna(f.availability_id)
                /\ NoPartner(tx.product_type, "product_type_name", rb.product_type)
                     => \A f \in mine : isna(f.product_type_id)

\* C3 witness: a staging row without upc got a fact row whose
\* books_details_id is NULL.
C3_Witness ==
    /\ pc = "b_fact_commit"
    /\ \E rb \in Rows(tx.raw_books) :
          /\ isna(rb.upc)
          /\ \E f \in Rows(NewFacts) :
                f.raw_books_id = rb.id /\ isna(f.books_details_id)

\* The last n rows of the table.
LastRows(t, n) == SubSeq(t, Len(t) - n + 1, Len(t))

\* C9: the stages run in the order extract, transform, staging write,
\* warehouse build: a stage is entered only from the end of the one before
\* it, the build only by the commit of the staging write; while the
\* build runs the rows this run loaded are committed in raw_books, and no
\* step of the build, failing or not, changes the committed raw_books; once
\* the run has failed, the only step is the start of another run, which
\* changes no table.
C9_StagesInOrderAndFailureStops ==
    [][/\ (pc' \in TransformPcs /\ pc \notin TransformPcs => pc = "extract")
       /\ (pc' \in LoadPcs /\ pc \notin LoadPcs => pc = "t_price")
       /\ (pc' \in BuildPcs /\ pc \notin BuildPcs
             => pc = "l_insert" /\ li > Len(df.rows) /\ db' = tx)
       /\ (pc' = "done" => pc = "b_fact_commit")
       /\ (pc \in LoadPcs /\ pc' = "failed" => db'.raw_books = db.raw_books)
       /\ (pc \in BuildPcs
             => /\ db'.raw_books = db.raw_books
                /\ Len(db.raw_books) >= Len(df.rows)
                /\ \A k \in 1..Len(df.rows) :
                      LET r == LastRows(db.raw_books, Len(df.rows))[k]
                      IN  r = StagingRow(df.rows[k], r.id))
       /\ (pc = "failed" => pc' = "extract" /\ runs' = runs + 1 /\ db' = db)]_vars

\* C9 witness: the first run has failed after its staging write committed
\* rows, that is, in the warehouse build.
C9_Witness ==
    /\ pc = "failed"
    /\ runs = 1
    /\ db.raw_books # <<>>
    /\ "books_fact" \in db.tables

\* C10: every committed books_fact row has non-NULL category_id, rating_id,
\* availability_id and product_type_id, and each is the id of the dimension
\* row whose natural key is the value of the staging row the fact row was
\* built from.
C10_FactKeysResolve ==
    \A f \in Rows(db.books_fact) :
        \E rb \in Rows(db.raw_books) :
            /\ rb.id = f.raw_books_id
            /\ ~isna(f.category_id) /\ ~isna(f.rating_id)
            /\ ~isna(f.availability_id) /\ ~isna(f.product_type_id)
            /\ \E d \in Rows(db.category_info) :
                  d.id = Val(f.category_id) /\ d.category_name = rb.category
            /\ \E d \in Rows(db.rating_info) :
                  d.id = Val(f.rating_id) /\ d.rating_value = rb.rating
            /\ \E d \in Rows(db.availability_info) :
                  /\ d.id = Val(f.availability_id)
                  /\ d.availability_status =
                        (IF rb.availability = Some(TRUE) THEN Some("In Stock")
                         ELSE Some("Out of Stock"))
            /\ \E d \in Rows(db.product_type) :
                  d.id = Val(f.product_type_id) /\ d.product_type_name = rb.product_type

\* C10 witness: a build has completed and its fact rows reference different
\* rows of the category, rating, availability and product type dimensions.
C10_Witness ==
    /\ pc = "done"
    /\ \E f, g \in Rows(db.books_fact) :
          /\ f.category_id # g.category_id
          /\ f.rating_id # g.rating_id
          /\ f.availability_id # g.availability_id
          /\ f.product_type_id # g.product_type_id

(***************************************************************************)
(* Properties of transform_data and of what it hands on, checked under     *)
(* SpecT.                                                                  *)
(***************************************************************************)
\* C4: for every books_fact row whose price_incl_tax, tax and price_excl_tax
\* are all non-NULL, |price_incl_tax - tax - price_excl_tax| <= 0.01.
C4_FactTaxConsistent ==
    \A f \in Rows(tx.books_fact) :
        ~isna(f.price_incl_tax) /\ ~isna(f.tax) /\ ~isna(f.price_excl_tax)
            => Abs(Val(f.price_incl_tax) - Val(f.tax) - Val(f.price_excl_tax)) <= Cent

\* The typed values of one raw record (the Record Normalizer of the spec).
Normalized(r) == DefaultsRow(ConvertRow(r))

\* C5: in the output of transform_data no two records come from input
\* records whose normalized fields are all equal, the records are in the
\* order of the input, and of input records with equal normalized fields
\* (and a title) the first one is in the output.
C5_NormalizedDuplicatesCollapse ==
    pc = "l_create" =>
        /\ \A i, j \in 1..Len(df.index) :
              i < j => /\ df.index[i] < df.index[j]
                       /\ Normalized(books[df.index[i]]) # Normalized(books[df.index[j]])
        /\ \A k \in 1..Len(books) :
              ~isna(books[k].title) /\ k \notin Range(df.index)
                 => \E j \in Range(df.index) :
                       j < k /\ Normalized(books[j]) = Normalized(books[k])

\* The pcs at which df is the value transform_data returned.
AfterTransformPcs == LoadPcs \cup BuildPcs

\* No record whose title is in Bad is in the output of transform_data, in
\* raw_books or in books_details, and no books_fact row references one.
NoTitleIn(Bad) ==
    /\ pc \in AfterTransformPcs => \A r \in Rows(df.rows) : r.title \notin Bad
    /\ \A s \in {db, tx} :
          /\ \A rb \in Rows(s.raw_books) : rb.title \notin Bad
          /\ \A d \in Rows(s.books_details) : d.title \notin Bad
          /\ \A f \in Rows(s.books_fact) :
                /\ \A rb \in Rows(s.raw_books) :
                      rb.id = f.raw_books_id => rb.title \notin Bad
                /\ \A d \in Rows(s.books_details) :
                      f.books_details_id = Some(d.id) => d.title \notin Bad

\* C6 as amended: no record whose title is null is in the output of
\* transform_data, in raw_books, in books_details or behind a books_fact row.
C6_NoNullTitle == NoTitleIn({None})

\* C6 as claimed: no record whose title is null or empty is in the output of
\* transform_data, in raw_books, in books_details or behind a books_fact row.
C6_NoNullOrEmptyTitle == NoTitleIn({None, Some("")})

\* C6 witness: the input held a record without title and the run has built
\* its fact rows.
C6_Witness ==
    /\ pc = "b_fact_commit"
    /\ \E k \in 1..Len(books) : isna(books[k].title)
    /\ tx.books_fact # <<>>

RECURSIVE SumOver(_, _, _)
SumOver(rows, field, S) ==
    IF S = {} THEN 0
    ELSE LET k == CHOOSE x \in S : TRUE
         IN  Val(rows[k][field]) + SumOver(rows, field, S \ {k})

\* C7: the imputation step leaves every non-null price value unchanged,
\* replaces a null one by the mean of the non-null values of the field among
\* the records with the same category value (null being one such value), and
\* leaves it null exactly when there is no such value.
C7_ImputeGroupMean ==
    [][pc = "t_impute" =>
        /\ df'.index = df.index
        /\ \A k \in 1..Len(df.rows) : \A f \in Range(price_fields) :
              LET before == df.rows[k][f]
                  after  == df'.rows[k][f]
                  grp    == {j \in 1..Len(df.rows) :
                                /\ df.rows[j].category = df.rows[k].category
                                /\ ~isna(df.rows[j][f])}
              IN  /\ ~isna(before) => after = before
                  /\ isna(before) /\ grp # {}
                       => /\ ~isna(after)
                          /\ Val(after) * Cardinality(grp) = SumOver(df.rows, f, grp)
                  /\ isna(after) <=> (isna(before) /\ grp = {})]_vars

\* C8: the tax-consistency repair changes nothing but price_excl_tax, and
\* that only on records with |price_incl_tax - tax - price_excl_tax| > 0.01;
\* the price-mismatch repair changes nothing but price, and that only on
\* records with |price - price_incl_tax| > 0.01; neither adds, drops or
\* reorders a record.
C8_RepairsChangeOnlyTheirField ==
    [][/\ pc = "t_tax" =>
            /\ df'.index = df.index
            /\ Len(df'.rows) = Len(df.rows)
            /\ \A k \in 1..Len(df.rows) :
                  LET a == df.rows[k]
                      b == df'.rows[k]
                  IN  /\ b = [a EXCEPT !.price_excl_tax = b.price_excl_tax]
                      /\ b.price_excl_tax # a.price_excl_tax
                           => /\ ~isna(a.price_incl_tax) /\ ~isna(a.tax)
                              /\ ~isna(a.price_excl_tax)
                              /\ Abs(Val(a.price_incl_tax) - Val(a.tax)
                                     - Val(a.price_excl_tax)) > Cent
       /\ pc = "t_price" =>
            /\ df'.index = df.index
            /\ Len(df'.rows) = Len(df.rows)
            /\ \A k \in 1..Len(df.rows) :
                  LET a == df.rows[k]
                      b == df'.rows[k]
                  IN  /\ b = [a EXCEPT !.price = b.price]
                      /\ b.price # a.price
                           => /\ ~isna(a.price) /\ ~isna(a.price_incl_tax)
                              /\ Abs(Val(a.price) - Val(a.price_incl_tax)) > Cent]_vars

\* C8 witness: both repairs have run and each has overwritten a record.
C8_Witness ==
    /\ pc = "l_create"
    /\ log.inconsistent > 0
    /\ log.mismatch > 0

====
